---- MODULE Spec2Model ----
(***************************************************************************)
(* Session / authentication state of the AIChatbotProject front end:       *)
(*   - App            (src/unnamed/part_001, lines 34-114)                  *)
(*   - AppRouter      (src/unnamed/part_001, lines 1-32)                    *)
(*   - Header         (session-aware, src/unnamed/part_000)                 *)
(*   - AuthActions    (src/frontend/src/components/AuthActions.jsx)         *)
(*   - Header         (legacy, src/frontend/src/components/Header.jsx)      *)
(*                                                                         *)
(* JavaScript values are written as strings: "undefined", "null", "true",  *)
(* "false", "" (the empty string) and non-empty strings such as "a@x".     *)
(* A path is the sequence of its segments: "/" is << >>, "/patient/7" is   *)
(* <<"patient", "7">>.  The backend is opaque: every response is chosen    *)
(* nondeterministically when the request settles.                          *)
(***************************************************************************)
EXTENDS Naturals, Sequences, FiniteSets

VARIABLES
    \* ---- App (part_001:57-114)
    authChecked,    \* useState(false), part_001:58
    isLoggedIn,     \* useState(false), part_001:59
    appPc,          \* position of the session-check effect, part_001:62-76
    sessionReqs,    \* number of GET /auth/session requests issued so far
    location,       \* the router's current path (relative to the basename)
    \* ---- Header, session-aware (part_000)
    headerMounted,  \* whether the Header is on screen
    userInfo,       \* useState(null), part_000:9: {} is null, {u} the object u
    fetches,        \* fetchUserInfo calls in flight, in issue order
    lastResp,       \* the whoami response most recently processed to the end
    \* ---- AuthActions (AuthActions.jsx)
    calls,          \* handleLogout / handleUnlink invocations awaiting fetch
    loggedOut,      \* some logout/unlink POST has come back 2xx
    \* ---- Header, legacy (Header.jsx)
    lgCalls,        \* handleLogout / handleUnlink invocations awaiting fetch
    localStorage,   \* keys held by window.localStorage
    history,        \* the router's history stack, current entry last
    \* ---- AppRouter and the route tables as functions
    rTable,         \* which route table is mounted
    rRequested,     \* the path last navigated to
    rLocation,      \* the path the router ends at
    rElement,       \* the element rendered there
    \* ---- the step just taken
    ev

appVars    == <<authChecked, isLoggedIn, appPc, sessionReqs, location>>
headerVars == <<headerMounted, userInfo, fetches, lastResp>>
authVars   == <<calls, loggedOut>>
legacyVars == <<lgCalls, localStorage, history>>
routeVars  == <<rTable, rRequested, rLocation, rElement>>
vars       == <<appVars, headerVars, authVars, legacyVars, routeVars, ev>>

(***************************************************************************)
(* Bounds of the model.                                                    *)
(***************************************************************************)
MaxInFlight == 2    \* whoami fetches in flight at once
MaxCalls    == 1    \* AuthActions invocations awaiting their POST
MaxPathLen  == 2    \* segments of a path
MaxLgCalls  == 2    \* legacy logout/unlink invocations awaiting their GET
MaxHistory  == 3    \* entries of the legacy history stack

(***************************************************************************)
(* JavaScript truthiness and the || operator.                              *)
(***************************************************************************)
Undef == "undefined"

Falsy(v) == v \in {"undefined", "null", "false", ""}

Truthy(v) == ~Falsy(v)

\* a || b
OrElse(a, b) == IF Truthy(a) THEN a ELSE b

(***************************************************************************)
(* Paths and route tables.                                                 *)
(***************************************************************************)
Segs == {"home", "chat", "patient", "patient-info", "feedback", "25-0000032"}

Paths == UNION {[1..n -> Segs] : n \in 0..MaxPathLen}

Root == << >>

Page(pat, el) == [pat |-> pat, el |-> el, to |-> Root]

Redirect(pat, to) == [pat |-> pat, el |-> "Navigate", to |-> to]

Star == <<"*">>

\* part_001:15-29
AppRouterRoutes ==
    << Page(Root, "LoginPage"),
       Page(<<"home">>, "HomePage"),
       Page(<<"chat">>, "ChatBotPage"),
       Page(<<"patient-info">>, "PatientInfoPage"),
       Page(<<"feedback">>, "FeedbackPage"),
       Page(Star, "LoginPage") >>

\* part_001:85-92
AppAnonRoutes ==
    << Page(Root, "LoginPage"),
       Redirect(Star, Root) >>

\* the authenticated table with path="*" rendering the home page in place
AppAuthRoutesNoRedirect ==
    << Page(Root, "HomePage"),
       Page(<<"home">>, "HomePage"),
       Page(<<"chat">>, "ChatBotPage"),
       Redirect(<<"patient">>, <<"patient", "25-0000032">>),
       Page(<<"patient", ":patientId">>, "PatientInfoPage"),
       Page(<<"feedback">>, "FeedbackPage"),
       Page(Star, "HomePage") >>

\* part_001:94-109
AppAuthRoutes ==
    << Page(Root, "HomePage"),
       Page(<<"home">>, "HomePage"),
       Page(<<"chat">>, "ChatBotPage"),
       Redirect(<<"patient">>, <<"patient", "25-0000032">>),
       Page(<<"patient", ":patientId">>, "PatientInfoPage"),
       Page(<<"feedback">>, "FeedbackPage"),
       Redirect(Star, Root) >>

IsParam(seg) == seg = ":patientId"

\* a route pattern other than "*" against a path, segment by segment
MatchesExplicit(pat, path) ==
    /\ pat # Star
    /\ Len(pat) = Len(path)
    /\ \A i \in 1..Len(pat) : IsParam(pat[i]) \/ pat[i] = path[i]

HasExplicitRoute(table, path) ==
    \E i \in 1..Len(table) : MatchesExplicit(table[i].pat, path)

\* <Routes>: the explicit route that matches, else the path="*" route
RouteFor(table, path) ==
    IF HasExplicitRoute(table, path)
    THEN table[CHOOSE i \in 1..Len(table) :
                   /\ MatchesExplicit(table[i].pat, path)
                   /\ \A j \in 1..(i - 1) : ~MatchesExplicit(table[j].pat, path)]
    ELSE table[CHOOSE i \in 1..Len(table) : table[i].pat = Star]

\* where the router ends after following every <Navigate replace>
RECURSIVE Resolve(_, _)
Resolve(table, path) ==
    LET r == RouteFor(table, path)
    IN  IF r.el = "Navigate"
        THEN Resolve(table, r.to)
        ELSE [location |-> path, el |-> r.el]

(***************************************************************************)
(* App: the one-time session check and the gate on the route tables.       *)
(***************************************************************************)
SessionOutcomes == {"throw", "2xx", "non2xx"}

OkVals == {"undefined", "null", "false", "", "true", "yes"}

\* what res.json() yields: an object with an ok field, JSON null, or a rejection
SessionBodies ==
    {[kind |-> "obj", ok |-> v] : v \in OkVals}
        \cup {[kind |-> "null", ok |-> Undef], [kind |-> "badjson", ok |-> Undef]}

\* the effect re-run on every render (no dependency array)
SessionEffectEveryRender == appPc \in {"mounting", "done"}

\* part_001:62,76: useEffect(..., []) runs once, after the first render
SessionEffectDue == appPc = "mounting"

\* a session check that trusts any body that decoded
IsLoggedInOfDecoded(body) == body.kind # "badjson"

\* part_001:68-69: data = await res.json().catch(() => ({})); !!data?.ok
IsLoggedInOf(body) ==
    LET ok == IF body.kind = "obj" THEN body.ok ELSE Undef
    IN  Truthy(ok)

\* part_001:78-110: what App returns
Rendered ==
    IF ~authChecked THEN "Loading"
    ELSE IF ~isLoggedIn THEN "anonymous"
    ELSE "authenticated"

RouteTable(loggedIn) == IF loggedIn THEN AppAuthRoutes ELSE AppAnonRoutes

HeaderIdle ==
    /\ headerMounted = FALSE
    /\ userInfo = {}
    /\ fetches = << >>
    /\ lastResp = [kind |-> "none"]

AuthIdle == calls = << >> /\ loggedOut = FALSE

AppIdle ==
    /\ authChecked = FALSE
    /\ isLoggedIn = FALSE
    /\ appPc = "mounting"
    /\ sessionReqs = 0
    /\ location = Root

LegacyIdle == lgCalls = << >> /\ localStorage = {} /\ history = <<Root>>

RoutesIdle ==
    /\ rTable = "none"
    /\ rRequested = Root
    /\ rLocation = Root
    /\ rElement = "none"

\* the page is loaded at any URL; nothing has run but the first render
Init ==
    /\ authChecked = FALSE
    /\ isLoggedIn = FALSE
    /\ appPc = "mounting"
    /\ sessionReqs = 0
    /\ location \in Paths
    /\ HeaderIdle
    /\ AuthIdle
    /\ LegacyIdle
    /\ RoutesIdle
    /\ ev = [op |-> "Init"]

\* part_001:62-67: the effect issues GET /auth/session
AppMount ==
    /\ SessionEffectDue
    /\ sessionReqs' = sessionReqs + 1
    /\ appPc' = "fetch"
    /\ ev' = [op |-> "AppMount"]
    /\ UNCHANGED <<authChecked, isLoggedIn, location>>
    /\ UNCHANGED <<headerVars, authVars, legacyVars, routeVars>>

\* the gate opens (part_001:73,78): the router mounts and follows its redirects
OpenGate(loggedIn) ==
    /\ isLoggedIn' = loggedIn
    /\ authChecked' = TRUE
    /\ appPc' = "done"
    /\ location' = Resolve(RouteTable(loggedIn), location).location

\* part_001:65-67,70-74: await fetch(...) settles; the status is never read
SessionFetchSettle(outcome) ==
    /\ appPc = "fetch"
    /\ IF outcome = "throw"
       THEN OpenGate(FALSE)
       ELSE /\ appPc' = "json"
            /\ UNCHANGED <<authChecked, isLoggedIn, location>>
    /\ ev' = [op |-> "SessionFetchSettle", outcome |-> outcome]
    /\ UNCHANGED sessionReqs
    /\ UNCHANGED <<headerVars, authVars, legacyVars, routeVars>>

\* part_001:68-69,72-74: await res.json() settles
SessionJsonSettle(body) ==
    /\ appPc = "json"
    /\ OpenGate(IsLoggedInOf(body))
    /\ ev' = [op |-> "SessionJsonSettle", body |-> body]
    /\ UNCHANGED sessionReqs
    /\ UNCHANGED <<headerVars, authVars, legacyVars, routeVars>>

\* part_001:87-90: the login page, shown at "/" of the anonymous table,
\* calls onLogin
OnLogin ==
    /\ Rendered = "anonymous"
    /\ Resolve(RouteTable(isLoggedIn), location).el = "LoginPage"
    /\ isLoggedIn' = TRUE
    /\ location' = Resolve(RouteTable(TRUE), location).location
    /\ ev' = [op |-> "OnLogin"]
    /\ UNCHANGED <<authChecked, appPc, sessionReqs>>
    /\ UNCHANGED <<headerVars, authVars, legacyVars, routeVars>>

(***************************************************************************)
(* Header (session-aware): fetchUserInfo and its triggers.                 *)
(***************************************************************************)
Emails    == {"undefined", "", "a@x", "b@x"}
Nicknames == {"undefined", "nick"}
Images    == {"undefined", "img"}
Ids       == {"undefined", "id1", "id2"}

NoBody ==
    [logged_in |-> Undef, email |-> Undef, nickname |-> Undef,
     profile_image |-> Undef, id |-> Undef]

\* bodies of a 2xx whoami response that decode to an object
WhoamiObjects ==
    {[logged_in |-> "true", email |-> e, nickname |-> n,
      profile_image |-> p, id |-> i] :
        e \in Emails, n \in Nicknames, p \in Images, i \in Ids}
    \cup
    {[logged_in |-> l, email |-> e, nickname |-> "nick",
      profile_image |-> "img", id |-> "id1"] :
        l \in {"false", "undefined"}, e \in {"undefined", "a@x"}}

\* what await res.json() can end with
JsonResults ==
    {[kind |-> "obj", body |-> b] : b \in WhoamiObjects}
        \cup {[kind |-> k, body |-> NoBody] : k \in {"null", "badjson"}}

\* the object built without the || "" defaults
UserInfoOfRaw(data) ==
    [email |-> data.email, nickname |-> data.nickname,
     profile_image |-> data.profile_image, id |-> data.id]

\* part_000:32-37
UserInfoOf(data) ==
    [email |-> OrElse(data.email, ""),
     nickname |-> OrElse(data.nickname, ""),
     profile_image |-> OrElse(data.profile_image, ""),
     id |-> data.id]

\* a fetchUserInfo whose catch block leaves the state as it was
ApplyResponseKeepOnError(prev, resp) ==
    IF resp.kind \in {"throw", "badjson"} THEN prev
    ELSE IF resp.kind = "non2xx" THEN {}
    ELSE IF resp.kind = "obj" /\ Truthy(resp.body.logged_in)
         THEN {UserInfoOf(resp.body)}
         ELSE {}

\* a fetchUserInfo that merges the response into the previous object
ApplyResponseMerge(prev, resp) ==
    IF resp.kind \in {"throw", "badjson", "non2xx"} THEN {}
    ELSE IF resp.kind = "obj" /\ Truthy(resp.body.logged_in)
         THEN IF prev = {}
              THEN {UserInfoOf(resp.body)}
              ELSE {[f \in DOMAIN UserInfoOf(resp.body) |->
                        IF Falsy(resp.body[f]) THEN u[f]
                        ELSE UserInfoOf(resp.body)[f]] : u \in prev}
         ELSE {}

\* part_000:24-44: the state one fetchUserInfo call leaves, given what its
\* request ended with; the previous state is never read
ApplyResponse(prev, resp) ==
    IF resp.kind = "throw" THEN {}                            \* 41-43
    ELSE IF resp.kind = "non2xx" THEN {}                      \* 26-29
    ELSE IF resp.kind = "badjson" THEN {}                     \* 30, 41-43
    ELSE LET logged_in == IF resp.kind = "obj"                \* data?.logged_in
                          THEN resp.body.logged_in ELSE Undef
         IN  IF Truthy(logged_in)
             THEN {UserInfoOf(resp.body)}                     \* 31-37
             ELSE {}                                          \* 38-40

\* part_000:25: fetchUserInfo runs up to its first await
StartFetches(fs, n) ==
    IF n = 0 THEN fs
    ELSE IF n = 1 THEN Append(fs, [stage |-> "fetch", stale |-> FALSE])
    ELSE Append(Append(fs, [stage |-> "fetch", stale |-> FALSE]),
                [stage |-> "fetch", stale |-> FALSE])

\* call i has run to its end: it leaves the list, and every call issued
\* before it is from now on older than a processed one
Finish(fs, i) ==
    [j \in 1..(Len(fs) - 1) |->
        IF j < i THEN [fs[j] EXCEPT !.stale = TRUE] ELSE fs[j + 1]]

\* room for n more whoami fetches, counting the two each pending
\* AuthActions invocation will start
Room(n) == Len(fetches) + 2 * Len(calls) + n <= MaxInFlight

\* part_000:48-50: the effect runs on mount.  The Header is shown by the
\* pages of the authenticated table (its logo leads to /home, a route of
\* that table only) and stays on screen from then on.
HeaderMount ==
    /\ Rendered = "authenticated"
    /\ ~headerMounted
    /\ Room(1)
    /\ headerMounted' = TRUE
    /\ fetches' = StartFetches(fetches, 1)
    /\ ev' = [op |-> "HeaderMount", started |-> 1]
    /\ UNCHANGED <<userInfo, lastResp>>
    /\ UNCHANGED <<appVars, authVars, legacyVars, routeVars>>

\* part_000:48-50: the number of fetchUserInfo calls a navigation causes
PathEffect(old, new) == IF new # old THEN 1 ELSE 0

\* part_000:59,89: the logo navigates to /home; part_000:48-50 re-runs the
\* effect when pathname changed
LogoClick ==
    /\ headerMounted
    /\ LET new == Resolve(RouteTable(isLoggedIn), <<"home">>).location
           n   == PathEffect(location, new)
       IN  /\ Room(n)
           /\ location' = new
           /\ fetches' = StartFetches(fetches, n)
           /\ ev' = [op |-> "LogoClick", changed |-> new # location,
                     started |-> n]
    /\ UNCHANGED <<authChecked, isLoggedIn, appPc, sessionReqs>>
    /\ UNCHANGED <<headerMounted, userInfo, lastResp>>
    /\ UNCHANGED <<authVars, legacyVars, routeVars>>

\* part_000:53-57: the window regains focus
Focus ==
    /\ headerMounted
    /\ Room(1)
    /\ fetches' = StartFetches(fetches, 1)
    /\ ev' = [op |-> "Focus", started |-> 1]
    /\ UNCHANGED <<headerMounted, userInfo, lastResp>>
    /\ UNCHANGED <<appVars, authVars, legacyVars, routeVars>>

\* a fetchUserInfo call reaches its end with response resp
Process(i, resp) ==
    /\ userInfo' = ApplyResponse(userInfo, resp)
    /\ lastResp' = resp
    /\ fetches' = Finish(fetches, i)
    /\ ev' = [op |-> "WhoamiDone", wasAuth |-> userInfo # {},
              stale |-> fetches[i].stale]

\* part_000:25-29,41-44: await fetch(whoamiUrl) settles
WhoamiFetchSettle(i, outcome) ==
    /\ i \in 1..Len(fetches)
    /\ fetches[i].stage = "fetch"
    /\ IF outcome = "ok"
       THEN /\ fetches' = [fetches EXCEPT ![i].stage = "json"]
            /\ ev' = [op |-> "WhoamiOk"]
            /\ UNCHANGED <<userInfo, lastResp>>
       ELSE Process(i, [kind |-> outcome, body |-> NoBody])
    /\ UNCHANGED headerMounted
    /\ UNCHANGED <<appVars, authVars, legacyVars, routeVars>>

\* part_000:30-44: await res.json() settles
WhoamiJsonSettle(i, resp) ==
    /\ i \in 1..Len(fetches)
    /\ fetches[i].stage = "json"
    /\ Process(i, resp)
    /\ UNCHANGED headerMounted
    /\ UNCHANGED <<appVars, authVars, legacyVars, routeVars>>

(***************************************************************************)
(* AuthActions, as the Header embeds it (part_000:125-130): onLogout,      *)
(* onUnlink and onDone are all fetchUserInfo.                              *)
(***************************************************************************)
Kinds == {"logout", "unlink"}

AuthOutcomes == {"ok", "non2xx", "throw"}

\* AuthActions.jsx:26,31
Endpoint(kind) ==
    IF kind = "logout" THEN "/auth/kakao/logout" ELSE "/auth/kakao/unlink"

\* onDone called after the try block only, not in a finally
CallDoneUnlessThrown(outcome) ==
    [ret |-> outcome = "ok", onDone |-> IF outcome = "throw" THEN 0 ELSE 1]

\* AuthActions.jsx:10-23: what call returns and how often it calls onDone
Call(outcome) ==
    [ret |-> outcome = "ok",      \* 16: res.ok; 19: false
     onDone |-> 1]                \* 20-22: finally

\* AuthActions.jsx:25-33: the callbacks one handler invocation makes once
\* its request has settled
Handle(kind, outcome) ==
    LET c == Call(outcome)
    IN  [onDone   |-> c.onDone,
         onLogout |-> IF kind = "logout" THEN 1 ELSE 0,     \* 27
         onUnlink |-> IF kind = "unlink" THEN 1 ELSE 0]     \* 32

\* AuthActions.jsx:35-67 with part_000:100,126: the buttons exist while
\* userInfo is set; a click runs the handler up to await fetch(...)
Click(kind) ==
    /\ headerMounted
    /\ userInfo # {}
    /\ Len(calls) < MaxCalls
    /\ Len(fetches) + 2 * (Len(calls) + 1) <= MaxInFlight
    /\ calls' = Append(calls, [kind |-> kind, method |-> "POST",
                              url |-> Endpoint(kind), posts |-> 1])
    /\ ev' = [op |-> "Click", kind |-> kind]
    /\ UNCHANGED loggedOut
    /\ UNCHANGED <<appVars, headerVars, legacyVars, routeVars>>

Remove(seq, i) ==
    [j \in 1..(Len(seq) - 1) |-> IF j < i THEN seq[j] ELSE seq[j + 1]]

\* AuthActions.jsx:12-33: the POST settles; the rest of call and of the
\* handler run in the same turn of the event loop
AuthSettle(i, outcome) ==
    /\ i \in 1..Len(calls)
    /\ LET c == calls[i]
           h == Handle(c.kind, outcome)
           n == h.onDone + h.onLogout + h.onUnlink
       IN  /\ fetches' = StartFetches(fetches, n)
           /\ ev' = [op |-> "AuthSettle", kind |-> c.kind,
                     outcome |-> outcome, method |-> c.method, url |-> c.url,
                     posts |-> c.posts, onDone |-> h.onDone,
                     onLogout |-> h.onLogout, onUnlink |-> h.onUnlink,
                     started |-> Len(fetches') - Len(fetches)]
    /\ calls' = Remove(calls, i)
    /\ loggedOut' = (loggedOut \/ outcome = "ok")
    /\ UNCHANGED <<headerMounted, userInfo, lastResp>>
    /\ UNCHANGED <<appVars, legacyVars, routeVars>>

Next ==
    \/ AppMount
    \/ \E o \in SessionOutcomes : SessionFetchSettle(o)
    \/ \E b \in SessionBodies : SessionJsonSettle(b)
    \/ OnLogin
    \/ HeaderMount
    \/ LogoClick
    \/ Focus
    \/ \E i \in 1..MaxInFlight, o \in {"ok", "non2xx", "throw"} :
           WhoamiFetchSettle(i, o)
    \/ \E i \in 1..MaxInFlight, r \in JsonResults : WhoamiJsonSettle(i, r)
    \/ \E k \in Kinds : Click(k)
    \/ \E i \in 1..MaxCalls, o \in AuthOutcomes : AuthSettle(i, o)

Spec == Init /\ [][Next]_vars

(***************************************************************************)
(* Header (legacy): GET /logout, GET /unlink.                              *)
(***************************************************************************)
Keys == {"token", "patientId"}

LegacyPaths == {Root, <<"home">>, <<"chat">>}

\* Header.jsx:13,28
LegacyEndpoint(kind) == IF kind = "logout" THEN "/logout" ELSE "/unlink"

\* navigate(to, { replace: true })
ReplaceTop(hist, to) == [hist EXCEPT ![Len(hist)] = to]

\* the clean-up written at the end of the try block instead of in finally
LegacyFinallyUnlessThrown(outcome, storage, hist) ==
    IF outcome = "throw"
    THEN [storage |-> storage, hist |-> hist]
    ELSE [storage |-> {}, hist |-> ReplaceTop(hist, Root)]

\* Header.jsx:19-23,34-37: the finally block
LegacyFinally(outcome, storage, hist) ==
    [storage |-> {},                          \* window.localStorage.clear()
     hist    |-> ReplaceTop(hist, Root)]      \* navigate("/", {replace: true})

InitLegacy ==
    /\ AppIdle
    /\ HeaderIdle
    /\ AuthIdle
    /\ RoutesIdle
    /\ lgCalls = << >>
    /\ localStorage \in SUBSET Keys
    /\ \E p \in LegacyPaths : history = <<p>>
    /\ ev = [op |-> "Init"]

\* Header.jsx:11-16,26-31,64,76: a click runs the handler up to await fetch
LegacyClick(kind) ==
    /\ Len(lgCalls) < MaxLgCalls
    /\ lgCalls' = Append(lgCalls, [kind |-> kind, method |-> "GET",
                                  url |-> LegacyEndpoint(kind), gets |-> 1])
    /\ ev' = [op |-> "LegacyClick", kind |-> kind]
    /\ UNCHANGED <<localStorage, history>>
    /\ UNCHANGED <<appVars, headerVars, authVars, routeVars>>

\* Header.jsx:13-23,28-37: the GET settles; the response is never read
LegacySettle(i, outcome) ==
    /\ i \in 1..Len(lgCalls)
    /\ LET c == lgCalls[i]
           f == LegacyFinally(outcome, localStorage, history)
       IN  /\ localStorage' = f.storage
           /\ history' = f.hist
           /\ ev' = [op |-> "LegacySettle", kind |-> c.kind,
                     outcome |-> outcome, method |-> c.method, url |-> c.url,
                     gets |-> c.gets, depth |-> Len(history),
                     hadKeys |-> localStorage # {}]
    /\ lgCalls' = Remove(lgCalls, i)
    /\ UNCHANGED <<appVars, headerVars, authVars, routeVars>>

\* Header.jsx:56: the logo pushes /home
LegacyLogoClick ==
    /\ Len(history) < MaxHistory
    /\ history' = Append(history, <<"home">>)
    /\ ev' = [op |-> "LegacyLogoClick"]
    /\ UNCHANGED <<lgCalls, localStorage>>
    /\ UNCHANGED <<appVars, headerVars, authVars, routeVars>>

\* Header.jsx:21: the storage that is cleared is written by the pages
StorageSet(k) ==
    /\ k \notin localStorage
    /\ localStorage' = localStorage \cup {k}
    /\ ev' = [op |-> "StorageSet"]
    /\ UNCHANGED <<lgCalls, history>>
    /\ UNCHANGED <<appVars, headerVars, authVars, routeVars>>

NextLegacy ==
    \/ \E k \in Kinds : LegacyClick(k)
    \/ \E i \in 1..MaxLgCalls, o \in AuthOutcomes : LegacySettle(i, o)
    \/ LegacyLogoClick
    \/ \E k \in Keys : StorageSet(k)

SpecLegacy == InitLegacy /\ [][NextLegacy]_vars

(***************************************************************************)
(* The three route tables, applied to every path.                          *)
(***************************************************************************)
Tables == {"AppRouter", "AppAnonymous", "AppAuthenticated"}

TableOf(name) ==
    IF name = "AppRouter" THEN AppRouterRoutes
    ELSE IF name = "AppAnonymous" THEN AppAnonRoutes
    ELSE AppAuthRoutes

InitRoutes ==
    /\ AppIdle
    /\ HeaderIdle
    /\ AuthIdle
    /\ LegacyIdle
    /\ rTable \in Tables
    /\ rRequested = Root
    /\ rLocation = Resolve(TableOf(rTable), Root).location
    /\ rElement = Resolve(TableOf(rTable), Root).el
    /\ ev = [op |-> "Init"]

\* part_001:15-29,83-111: the router is taken to path p
RouteTo(p) ==
    /\ rRequested' = p
    /\ rLocation' = Resolve(TableOf(rTable), p).location
    /\ rElement' = Resolve(TableOf(rTable), p).el
    /\ ev' = [op |-> "RouteTo"]
    /\ UNCHANGED rTable
    /\ UNCHANGED <<appVars, headerVars, authVars, legacyVars>>

NextRoutes == \E p \in Paths : RouteTo(p)

SpecRoutes == InitRoutes /\ [][NextRoutes]_vars

(***************************************************************************)
(* The claims.                                                             *)
(***************************************************************************)
\* a field of the response, or "" when the response does not carry it
OrEmpty(v) == IF v \in {"undefined", "null"} THEN "" ELSE v

\* the Header state a whoami response stands for, read alone
Dictated(resp) ==
    IF resp.kind = "obj" /\ resp.body.logged_in = "true"
    THEN {[email |-> OrEmpty(resp.body.email),
           nickname |-> OrEmpty(resp.body.nickname),
           profile_image |-> OrEmpty(resp.body.profile_image),
           id |-> resp.body.id]}
    ELSE {}

\* C1: whatever the POST of a logout (unlink) invocation ends with, the
\* invocation made one POST to /auth/kakao/logout (/auth/kakao/unlink) and
\* called onDone once and onLogout (onUnlink) once, and no other callback.
C1_OnePostAndCallbacksOnce ==
    ev.op = "AuthSettle" =>
        /\ ev.method = "POST"
        /\ ev.posts = 1
        /\ ev.kind = "logout" => ev.url = "/auth/kakao/logout"
        /\ ev.kind = "unlink" => ev.url = "/auth/kakao/unlink"
        /\ ev.onDone = 1
        /\ ev.onLogout = (IF ev.kind = "logout" THEN 1 ELSE 0)
        /\ ev.onUnlink = (IF ev.kind = "unlink" THEN 1 ELSE 0)

\* an unlink whose fetch threw has still called onDone and onUnlink
C1_Witness ==
    /\ ev.op = "AuthSettle"
    /\ ev.kind = "unlink"
    /\ ev.outcome = "throw"
    /\ ev.onDone = 1
    /\ ev.onUnlink = 1

\* C2: right after a whoami fetch ends with a non-2xx response, a thrown
\* fetch or a body that does not decode, the Header is anonymous.
C2_FailureMeansAnonymous ==
    (ev.op = "WhoamiDone" /\ lastResp.kind \in {"non2xx", "throw", "badjson"})
        => userInfo = {}

\* an authenticated Header has just been made anonymous by a thrown fetch
C2_Witness ==
    /\ ev.op = "WhoamiDone"
    /\ ev.wasAuth
    /\ lastResp.kind = "throw"
    /\ userInfo = {}

\* C3: right after a 2xx whoami response with logged_in true the Header
\* holds that response's email, nickname and profile_image ("" for a
\* missing one) and its id; with logged_in false or absent it is anonymous.
C3_LoggedInResponseShown ==
    (ev.op = "WhoamiDone" /\ lastResp.kind = "obj") =>
        LET b == lastResp.body
        IN  /\ b.logged_in = "true" =>
                userInfo = {[email |-> OrEmpty(b.email),
                             nickname |-> OrEmpty(b.nickname),
                             profile_image |-> OrEmpty(b.profile_image),
                             id |-> b.id]}
            /\ b.logged_in \in {"false", "undefined"} => userInfo = {}

\* a logged-in response without nickname and image has just been shown
C3_Witness ==
    /\ ev.op = "WhoamiDone"
    /\ lastResp.kind = "obj"
    /\ lastResp.body.logged_in = "true"
    /\ lastResp.body.email = "b@x"
    /\ lastResp.body.nickname = "undefined"
    /\ lastResp.body.profile_image = "undefined"
    /\ userInfo = {[email |-> "b@x", nickname |-> "", profile_image |-> "",
                    id |-> "id2"]}

\* the session check ended without a truthy ok: the fetch threw, or the
\* body did not decode, or its ok field is falsy or missing
SessionCheckFalsy ==
    \/ ev.op = "SessionFetchSettle" /\ ev.outcome = "throw"
    \/ /\ ev.op = "SessionJsonSettle"
       /\ \/ ev.body.kind \in {"badjson", "null"}
          \/ ev.body.ok \in {"undefined", "null", "false", ""}

SessionCheckSettled ==
    \/ ev.op = "SessionFetchSettle" /\ ev.outcome = "throw"
    \/ ev.op = "SessionJsonSettle"

\* C4: until the /auth/session check has settled App renders only the
\* loading placeholder; when it settles App leaves the checking state, and
\* after a check without a truthy ok it renders the anonymous table, with
\* the login page at "/".
C4_GateBlocksUntilSettled ==
    /\ appPc # "done" => Rendered = "Loading"
    /\ SessionCheckSettled => (appPc = "done" /\ Rendered # "Loading")
    /\ SessionCheckFalsy =>
           /\ Rendered = "anonymous"
           /\ RouteTable(isLoggedIn) = AppAnonRoutes
           /\ location = Root
           /\ Resolve(RouteTable(isLoggedIn), location).el = "LoginPage"

\* a 2xx session response whose body did not decode has opened the gate
\* on the anonymous table
C4_Witness ==
    /\ ev.op = "SessionJsonSettle"
    /\ ev.body.kind = "badjson"
    /\ Rendered = "anonymous"

\* C5 as stated: in each of the three tables a path with no explicit
\* route ends at "/".
C5_UnmatchedEndsAtRoot ==
    ~HasExplicitRoute(TableOf(rTable), rRequested) => rLocation = Root

\* C5 amended: in App's two tables a path with no explicit route ends at
\* "/"; in AppRouter it stays where it is and shows the login page.
C5_UnmatchedShowsRootPage ==
    ~HasExplicitRoute(TableOf(rTable), rRequested) =>
        IF rTable = "AppRouter"
        THEN rLocation = rRequested /\ rElement = "LoginPage"
        ELSE rLocation = Root /\ rElement = Resolve(TableOf(rTable), Root).el

\* AppRouter taken to /patient shows the login page at /patient
C5_Witness ==
    /\ ev.op = "RouteTo"
    /\ rTable = "AppRouter"
    /\ rRequested = <<"patient">>
    /\ rLocation = <<"patient">>
    /\ rElement = "LoginPage"

\* C6: once a whoami response has been processed, the Header state is the
\* one the most recently processed response dictates, whatever was shown
\* before and in whatever order the fetches were issued.
C6_LastResponseWins ==
    lastResp.kind # "none" => userInfo = Dictated(lastResp)

\* an authenticated Header now shows the response of a fetch that was
\* issued before one already processed
C6_Witness ==
    /\ ev.op = "WhoamiDone"
    /\ ev.stale
    /\ ev.wasAuth
    /\ lastResp.kind = "obj"
    /\ lastResp.body.logged_in = "true"
    /\ lastResp.body.nickname = "undefined"
    /\ userInfo = Dictated(lastResp)

\* C7: whatever its GET ends with, a legacy logout (unlink) made one GET to
\* /logout (/unlink), and leaves local storage empty and the current
\* history entry replaced by "/".
C7_LegacyAlwaysClears ==
    ev.op = "LegacySettle" =>
        /\ ev.method = "GET"
        /\ ev.gets = 1
        /\ ev.url = (IF ev.kind = "logout" THEN "/logout" ELSE "/unlink")
        /\ localStorage = {}
        /\ Len(history) = ev.depth
        /\ history[Len(history)] = Root

\* a legacy logout whose fetch threw has emptied a non-empty storage and
\* replaced the top of a two-entry history
C7_Witness ==
    /\ ev.op = "LegacySettle"
    /\ ev.kind = "logout"
    /\ ev.outcome = "throw"
    /\ ev.hadKeys
    /\ ev.depth = 2
    /\ localStorage = {}
    /\ history = <<Root, Root>> \/ history = <<<<"home">>, Root>>
                                \/ history = <<<<"chat">>, Root>>

\* C8 as stated: one /auth/session request at most, and once the check has
\* settled no step changes which table App renders.
C8_RouteSetFixed ==
    [][/\ sessionReqs' <= 1
       /\ authChecked => (authChecked' /\ isLoggedIn' = isLoggedIn)]_vars

\* C8 amended: one /auth/session request, issued by the mount effect; once
\* the check has settled the only step that changes the table is onLogin,
\* from anonymous to authenticated.
C8_RouteSetChangesOnlyByLogin ==
    [][/\ sessionReqs' = (IF appPc' = "mounting" THEN 0 ELSE 1)
       /\ authChecked =>
              /\ authChecked'
              /\ isLoggedIn' # isLoggedIn =>
                     (ev'.op = "OnLogin" /\ ~isLoggedIn /\ isLoggedIn')]_vars

\* a logout POST has come back 2xx and App still renders the
\* authenticated table, after its one session request
C8_Witness ==
    /\ ev.op = "AuthSettle"
    /\ ev.kind = "logout"
    /\ ev.outcome = "ok"
    /\ Rendered = "authenticated"
    /\ sessionReqs = 1

\* C9 as stated: each trigger (mount, a path change, a focus event, one
\* logout or unlink click) starts exactly one whoami fetch.
C9_OneFetchPerTrigger ==
    /\ ev.op \in {"HeaderMount", "Focus", "AuthSettle"} => ev.started = 1
    /\ (ev.op = "LogoClick" /\ ev.changed) => ev.started = 1

\* C10: App never goes back from authenticated to anonymous.
C10_AppStaysAuthenticated == [][isLoggedIn => isLoggedIn']_vars

\* nothing is in flight, a logout or unlink has succeeded and the last
\* whoami said logged_in false: App is authenticated, the Header anonymous
C10_Witness ==
    /\ Rendered = "authenticated"
    /\ headerMounted
    /\ userInfo = {}
    /\ fetches = << >>
    /\ calls = << >>
    /\ appPc = "done"
    /\ loggedOut
    /\ lastResp.kind = "obj"
    /\ lastResp.body.logged_in = "false"

====
